---- MODULE Spec2Model ----
(***************************************************************************)
(* A model of loadcfg (src/loadcfg/__init__.py): the Config view over a    *)
(* generic tree, the load entry points, and Template.validate / generate.  *)
(*                                                                         *)
(* Python values are tagged records.  A dict (and a Config, which is a     *)
(* dict subclass) is a sequence of [k, v] entries with distinct keys, in   *)
(* insertion order, as Python keeps it.                                    *)
(***************************************************************************)
EXTENDS Integers, Sequences, FiniteSets

VARIABLES pc, data, config, written, outcome

vars == <<pc, data, config, written, outcome>>

(***************************************************************************)
(* Bounds of the model.                                                    *)
(***************************************************************************)
\* Nodes (scalars, lists, mappings) of an input tree handed to Config() or
\* produced by a parser.
MaxNodes == 4
\* Nodes of the mapping a stored Config is first built from.
MaxStoreNodes == 3
\* Field writes applied to one Config.
MaxWrites == 1
\* Fields of a Template, nested Templates' fields included.
MaxFields == 3

(***************************************************************************)
(* Python values.                                                          *)
(***************************************************************************)
PyNone == [tag |-> "NoneType"]
PyInt(n) == [tag |-> "int", n |-> n]
PyBool(b) == [tag |-> "bool", b |-> b]
\* A float, held in tenths: PyFloat(15) is 1.5.
PyFloat(t) == [tag |-> "float", tenths |-> t]
PyStr(s) == [tag |-> "str", s |-> s]
PyList(es) == [tag |-> "list", elems |-> es]
PyDict(items) == [tag |-> "dict", items |-> items]
PyConfig(items) == [tag |-> "Config", items |-> items]
\* A bound method, what attribute lookup finds on the class before the
\* instance's __getattr__ is asked.
PyMethod(f) == [tag |-> "method", name |-> f]
\* No object: a variable not yet bound, or a call that raised.
Absent == [tag |-> "absent"]

\* isinstance(value, dict): Config subclasses dict (line 17).
IsDict(v) == v.tag \in {"dict", "Config"}
IsList(v) == v.tag = "list"

Entry(key, value) == [k |-> key, v |-> value]
KeysOf(d) == [i \in 1..Len(d.items) |-> d.items[i].k]
KeySet(d) == {d.items[i].k : i \in 1..Len(d.items)}
HasKey(d, key) == key \in KeySet(d)
\* dict.__getitem__ on a key that is present.
Lookup(d, key) == d.items[CHOOSE i \in 1..Len(d.items) : d.items[i].k = key].v

\* dict.__setitem__: an existing key keeps its position, a new key is appended.
DictSetItem(d, key, value) ==
    IF HasKey(d, key)
    THEN [d EXCEPT !.items = [i \in 1..Len(d.items) |->
              IF d.items[i].k = key THEN Entry(key, value) ELSE d.items[i]]]
    ELSE [d EXCEPT !.items = Append(d.items, Entry(key, value))]

(***************************************************************************)
(* Config.__init__ and Config._convert_value.                              *)
(***************************************************************************)
RECURSIVE ConvertValueNoLists(_)
\* (a variant that leaves lists untouched)
ConvertValueNoLists(value) ==
    IF IsDict(value)
    THEN PyConfig([i \in 1..Len(value.items) |->
             Entry(value.items[i].k, ConvertValueNoLists(value.items[i].v))])
    ELSE value

RECURSIVE ConvertValue(_)
\* _convert_value; its dict branch is Config(value), i.e. the loop of
\* __init__ over value.items(), inlined here.
ConvertValue(value) ==
    IF IsDict(value)
    THEN PyConfig([i \in 1..Len(value.items) |->
             Entry(value.items[i].k, ConvertValue(value.items[i].v))])
    ELSE IF IsList(value)
    THEN PyList([i \in 1..Len(value.elems) |-> ConvertValue(value.elems[i])])
    ELSE value

\* (a variant without the isinstance guard: whatever it is given is wrapped)
ConfigInitUnguarded(d) ==
    [exc |-> "none",
     self |-> IF IsDict(d) THEN ConvertValue(d) ELSE PyConfig(<<>>),
     arg |-> d]

\* Config(data): the exception raised ("none" if none), the new object, and
\* the argument as the call leaves it (it is only read).
ConfigInit(d) ==
    IF ~IsDict(d)
    THEN [exc |-> "ValueError", self |-> Absent, arg |-> d]
    ELSE [exc |-> "none", self |-> ConvertValue(d), arg |-> d]

(***************************************************************************)
(* Input trees: every generic tree of at most a given number of nodes.     *)
(***************************************************************************)
Names == {"name", "validate"}
Scalars == {PyNone, PyInt(1), PyStr("x")}

InjSeqs(S, m) == {s \in [1..m -> S] : \A i, j \in 1..m : s[i] = s[j] => i = j}

DictsOver(f) ==
    {PyDict([i \in 1..Len(f) |-> Entry(ks[i], f[i])]) : ks \in InjSeqs(Names, Len(f))}

RECURSIVE TreesOfSize(_, _), ForestsOfSize(_, _)
TreesOfSize(S, n) ==
    (IF n = 1 THEN S ELSE {})
    \cup {PyList(f) : f \in ForestsOfSize(S, n - 1)}
    \cup UNION {DictsOver(f) : f \in ForestsOfSize(S, n - 1)}

ForestsOfSize(S, n) ==
    IF n = 0 THEN {<<>>}
    ELSE UNION {{<<t>> \o f : t \in TreesOfSize(S, k), f \in ForestsOfSize(S, n - k)}
                : k \in 1..n}

Trees == UNION {TreesOfSize(Scalars, n) : n \in 1..MaxNodes}

(***************************************************************************)
(* State.  One run of a client program: it builds or loads one Config      *)
(* (pc "start" -> "live"), writes fields, and makes one observation (a     *)
(* read, a validation or a generation; pc -> "done").  outcome holds what  *)
(* the last call returned or raised.                                       *)
(***************************************************************************)
NoOutcome == [op |-> "none", exc |-> "none", val |-> Absent, arg |-> Absent]

Init ==
    /\ pc = "start"
    /\ data = Absent
    /\ config = Absent
    /\ written = <<>>
    /\ outcome = NoOutcome

\* The state after a call that built (or failed to build) the Config.
Built(op, r, d) ==
    /\ pc' = IF r.exc = "none" THEN "live" ELSE "done"
    /\ data' = r.arg
    /\ config' = r.self
    /\ written' = <<>>
    /\ outcome' = [op |-> op, exc |-> r.exc, val |-> r.self, arg |-> d]

\* config = Config(d)
NewConfig(d) ==
    /\ pc = "start"
    /\ Built("Config", ConfigInit(d), d)

(***************************************************************************)
(* Load entry points.  The parsers are external: a file parses to some     *)
(* generic tree, or the parser raises.                                     *)
(***************************************************************************)
ParseError == [tag |-> "parse error"]
Parsed == Trees \cup {ParseError}

Raised(e, d) == [exc |-> e, self |-> Absent, arg |-> d]

\* LoadJson: json.load, then Config(data).
LoadJsonOf(d) ==
    IF d = ParseError THEN Raised("JSONDecodeError", d) ELSE ConfigInit(d)

\* LoadYaml: yaml.safe_load, the top-level check, then Config(data).
LoadYamlOf(d) ==
    IF d = ParseError THEN Raised("YAMLError", d)
    ELSE IF ~IsDict(d) THEN Raised("ValueError", d)
    ELSE ConfigInit(d)

\* LoadToml and LoadIni are imported by the tests but are not in the
\* package source; they follow the load contract of the specification:
\* parse, reject a non-mapping top level, wrap.
LoadTomlOf(d) ==
    IF d = ParseError THEN Raised("TomlDecodeError", d)
    ELSE IF ~IsDict(d) THEN Raised("ValueError", d)
    ELSE ConfigInit(d)

LoadIniOf(d) ==
    IF d = ParseError THEN Raised("ConfigParserError", d)
    ELSE IF ~IsDict(d) THEN Raised("ValueError", d)
    ELSE ConfigInit(d)

LoadJson(d) == pc = "start" /\ Built("LoadJson", LoadJsonOf(d), d)
LoadYaml(d) == pc = "start" /\ Built("LoadYaml", LoadYamlOf(d), d)
LoadToml(d) == pc = "start" /\ Built("LoadToml", LoadTomlOf(d), d)
LoadIni(d) == pc = "start" /\ Built("LoadIni", LoadIniOf(d), d)

\* The first call of a run.
Build ==
    \/ \E d \in Trees : NewConfig(d)
    \/ \E d \in Parsed : LoadJson(d)
    \/ \E d \in Parsed : LoadYaml(d)
    \/ \E d \in Parsed : LoadToml(d)
    \/ \E d \in Parsed : LoadIni(d)

NextConvert == pc = "start" /\ Build

SpecConvert == Init /\ [][NextConvert]_vars

(***************************************************************************)
(* Field access on a Config.                                               *)
(***************************************************************************)
\* The names that attribute lookup resolves on the class before __getattr__
\* is reached: Config.validate (line 86), and likewise everything inherited
\* from dict (items, keys, get, ...), which no name of this model uses.
ClassAttrs(obj) == IF obj.tag = "Config" THEN {"validate"} ELSE {}

Returned(v) == [exc |-> "none", val |-> v]
Thrown(e) == [exc |-> e, val |-> Absent]

\* config[key]
GetItemOf(obj, key) ==
    IF HasKey(obj, key) THEN Returned(Lookup(obj, key)) ELSE Thrown("KeyError")

\* getattr(obj, f): the class's own attributes win, and only a name the class
\* does not have reaches Config.__getattr__, which turns KeyError into
\* AttributeError.  Objects other than a Config have no attribute among Names.
GetAttrOf(obj, f) ==
    IF f \in ClassAttrs(obj) THEN Returned(PyMethod(f))
    ELSE IF obj.tag = "Config" /\ HasKey(obj, f) THEN Returned(Lookup(obj, f))
    ELSE Thrown("AttributeError")

\* hasattr(obj, f): getattr does not raise AttributeError.
HasAttr(obj, f) == GetAttrOf(obj, f).exc = "none"

\* The values a client writes; a mapping written is stored as it is.
WriteValues == {PyInt(2), PyStr("y"), PyDict(<<Entry("name", PyInt(2))>>)}

Wrote(op, key, value) ==
    /\ pc = "live"
    /\ Len(written) < MaxWrites
    /\ config' = DictSetItem(config, key, value)
    /\ written' = Append(written, Entry(key, value))
    /\ outcome' = [op |-> op, exc |-> "none", val |-> value, arg |-> PyStr(key)]
    /\ UNCHANGED <<pc, data>>

\* config[key] = value
SetItem(key, value) == Wrote("setitem", key, value)

\* config.key = value: __setattr__ stores under the key, whatever the name.
SetAttr(key, value) == Wrote("setattr", key, value)

Observed(op, key, r) ==
    /\ pc = "live"
    /\ pc' = "done"
    /\ outcome' = [op |-> op, exc |-> r.exc, val |-> r.val, arg |-> PyStr(key)]
    /\ UNCHANGED <<data, config, written>>

\* config[key]
GetItem(key) == Observed("getitem", key, GetItemOf(config, key))

\* config.key
GetAttr(key) == Observed("getattr", key, GetAttrOf(config, key))

StoreScalars == {PyBool(TRUE), PyInt(1), PyStr("x")}
StoreTrees == UNION {TreesOfSize(StoreScalars, n) : n \in 1..MaxStoreNodes}

Next ==
    \/ pc = "start" /\ \E d \in StoreTrees : NewConfig(d)
    \/ pc = "live" /\ \E k \in Names, v \in WriteValues : SetItem(k, v)
    \/ pc = "live" /\ \E k \in Names, v \in WriteValues : SetAttr(k, v)
    \/ pc = "live" /\ \E k \in Names : GetItem(k)
    \/ pc = "live" /\ \E k \in Names : GetAttr(k)

Spec == Init /\ [][Next]_vars

(***************************************************************************)
(* Templates.  A field table is the sequence of [k, t] fields in           *)
(* declaration order (cls._fields, a dict); a type descriptor is a plain   *)
(* class, or a Template subclass with a field table of its own.            *)
(***************************************************************************)
Type(n) == [kind |-> "type", name |-> n]
Schema(fields) == [kind |-> "Template", fields |-> fields]

\* isinstance(expected_type, type) and issubclass(expected_type, Template)
IsTemplate(t) == t.kind = "Template"

\* The classes a value's own class derives from, object left out: bool is a
\* subclass of int, Config (line 17) of dict.
Bases(tag) ==
    IF tag = "bool" THEN {"bool", "int"}
    ELSE IF tag = "Config" THEN {"Config", "dict"}
    ELSE {tag}

\* isinstance(value, expected_type) for a plain class.
IsInstance(value, t) == t.name \in Bases(value.tag)

\* type(value).__name__
TypeName(value) == value.tag

\* The messages of ConfigValidationError, as the parts the f-strings join.
MissingMsg(f) == [what |-> "Missing required field", field |-> f]
MismatchMsg(f, e, a) ==
    [what |-> "Field expected type, got", field |-> f, expected |-> e, actual |-> a]
InFieldMsg(f) == [what |-> "In field", field |-> f]

Passed(reads) == [exc |-> "none", msg |-> <<>>, reads |-> reads]
Failed(msg, reads) == [exc |-> "ConfigValidationError", msg |-> msg, reads |-> reads]

RECURSIVE ValidateFromKeepGoing(_, _, _, _)
\* (a variant that checks every field and raises for the last failing one)
ValidateFromKeepGoing(fields, i, obj, path) ==
    IF i > Len(fields) THEN Passed(<<>>)
    ELSE
      LET f == fields[i].k
          t == fields[i].t
          here == Append(path, f)
          rest == ValidateFromKeepGoing(fields, i + 1, obj, path)
          after(r) == IF rest.exc = "none"
                      THEN [r EXCEPT !.reads = r.reads \o rest.reads]
                      ELSE [rest EXCEPT !.reads = r.reads \o rest.reads]
      IN  IF ~HasAttr(obj, f) THEN after(Failed(<<MissingMsg(f)>>, <<here>>))
          ELSE LET value == GetAttrOf(obj, f).val IN
            IF IsTemplate(t)
            THEN LET r == ValidateFromKeepGoing(t.fields, 1, value, here) IN
                 IF r.exc /= "none"
                 THEN after(Failed(<<InFieldMsg(f)>> \o r.msg, <<here>> \o r.reads))
                 ELSE after(Passed(<<here>> \o r.reads))
            ELSE IF ~IsInstance(value, t)
                 THEN after(Failed(<<MismatchMsg(f, t.name, TypeName(value))>>, <<here>>))
                 ELSE after(Passed(<<here>>))

RECURSIVE ValidateFromNoPrefix(_, _, _, _)
\* (a variant that lets a nested failure through as it is)
ValidateFromNoPrefix(fields, i, obj, path) ==
    IF i > Len(fields) THEN Passed(<<>>)
    ELSE
      LET f == fields[i].k
          t == fields[i].t
          here == Append(path, f)
          then(reads) ==
              LET rest == ValidateFromNoPrefix(fields, i + 1, obj, path)
              IN  [rest EXCEPT !.reads = reads \o rest.reads]
      IN  IF ~HasAttr(obj, f) THEN Failed(<<MissingMsg(f)>>, <<here>>)
          ELSE LET value == GetAttrOf(obj, f).val IN
            IF IsTemplate(t)
            THEN LET r == ValidateFromNoPrefix(t.fields, 1, value, here) IN
                 IF r.exc /= "none"
                 THEN Failed(r.msg, <<here>> \o r.reads)
                 ELSE then(<<here>> \o r.reads)
            ELSE IF ~IsInstance(value, t)
                 THEN Failed(<<MismatchMsg(f, t.name, TypeName(value))>>, <<here>>)
                 ELSE then(<<here>>)

RECURSIVE ValidateFrom(_, _, _, _)
\* Template.validate, from the i-th field of the table on: the exception
\* raised ("none" if it returns), its message, and the fields examined, each
\* as its path from the validation root (path is the path of obj).
ValidateFrom(fields, i, obj, path) ==
    IF i > Len(fields) THEN Passed(<<>>)
    ELSE
      LET f == fields[i].k
          t == fields[i].t
          here == Append(path, f)
          then(reads) ==
              LET rest == ValidateFrom(fields, i + 1, obj, path)
              IN  [rest EXCEPT !.reads = reads \o rest.reads]
      IN  IF ~HasAttr(obj, f) THEN Failed(<<MissingMsg(f)>>, <<here>>)
          ELSE LET value == GetAttrOf(obj, f).val IN
            IF IsTemplate(t)
            THEN LET r == ValidateFrom(t.fields, 1, value, here) IN
                 IF r.exc /= "none"
                 THEN Failed(<<InFieldMsg(f)>> \o r.msg, <<here>> \o r.reads)
                 ELSE then(<<here>> \o r.reads)
            ELSE IF ~IsInstance(value, t)
                 THEN Failed(<<MismatchMsg(f, t.name, TypeName(value))>>, <<here>>)
                 ELSE then(<<here>>)

\* cls.validate(config)
ValidateOf(fields, obj) == ValidateFrom(fields, 1, obj, <<>>)

(***************************************************************************)
(* Field tables of at most a given number of fields, nested ones counted.  *)
(***************************************************************************)
RECURSIVE TablesOfSize(_, _), TypesOfCost(_, _)
TypesOfCost(P, c) ==
    (IF c = 1 THEN {Type(n) : n \in P} ELSE {})
    \cup {Schema(fs) : fs \in TablesOfSize(P, c - 1)}

\* The tables of TablesOfSize(P, n) that do not use the name nm.
Without(tables, nm) == {r \in tables : \A j \in 1..Len(r) : r[j].k /= nm}

TablesOfSize(P, n) ==
    IF n = 0 THEN {<<>>}
    ELSE UNION {{<<[k |-> x[1], t |-> ty]>> \o x[2] :
                   ty \in TypesOfCost(P, c),
                   x \in UNION {{<<nm, r>> : r \in Without(TablesOfSize(P, n - c), nm)}
                                : nm \in Names}}
                : c \in 1..n}

ValidateTypes == {"int", "bool", "str"}
ValidateTables == UNION {TablesOfSize(ValidateTypes, n) : n \in 0..MaxFields}

\* T.validate(config), for the Template whose field table is fields.
Validate(fields) ==
    LET r == ValidateOf(fields, config) IN
    /\ pc = "live"
    /\ pc' = "done"
    /\ outcome' = [op |-> "validate", exc |-> r.exc, val |-> Absent,
                   arg |-> Schema(fields), msg |-> r.msg, reads |-> r.reads]
    /\ UNCHANGED <<data, config, written>>

NextValidate ==
    \/ pc = "start" /\ \E d \in StoreTrees : NewConfig(d)
    \/ pc = "live" /\ \E fields \in ValidateTables : Validate(fields)

SpecValidate == Init /\ [][NextValidate]_vars

(***************************************************************************)
(* Template.generate.                                                      *)
(***************************************************************************)
\* (a variant that tests the types in another order, int before bool by
\* subclass rather than by equality)
GetExampleValueBoolAsInt(t) ==
    IF t.name \in {"int", "bool"} THEN PyInt(0)
    ELSE IF t.name = "float" THEN PyFloat(0)
    ELSE IF t.name = "str" THEN PyStr("example")
    ELSE IF t.name = "list" THEN PyList(<<>>)
    ELSE IF t.name = "dict" THEN PyDict(<<>>)
    ELSE PyNone

\* _get_example_value: the chain of == comparisons with the builtin types.
GetExampleValue(t) ==
    IF t.name = "int" THEN PyInt(0)
    ELSE IF t.name = "float" THEN PyFloat(0)
    ELSE IF t.name = "str" THEN PyStr("example")
    ELSE IF t.name = "bool" THEN PyBool(FALSE)
    ELSE IF t.name = "list" THEN PyList(<<>>)
    ELSE IF t.name = "dict" THEN PyDict(<<>>)
    ELSE PyNone

RECURSIVE GenerateExampleDict(_)
\* _generate_example_dict: one key per field, inserted in table order.
GenerateExampleDict(fields) ==
    PyDict([i \in 1..Len(fields) |->
        Entry(fields[i].k,
              IF IsTemplate(fields[i].t)
              THEN GenerateExampleDict(fields[i].t.fields)
              ELSE GetExampleValue(fields[i].t))])

\* The format identifiers a caller passes, and str.lower() on them.
Formats == {"json", "JSON", "yaml", "yml", "Yaml", "toml", "ini", "xml", "XML"}
Lower(fmt) ==
    IF fmt = "JSON" THEN "json"
    ELSE IF fmt = "Yaml" THEN "yaml"
    ELSE IF fmt = "XML" THEN "xml"
    ELSE fmt

\* What a serializer returns: a document in its format that parses back to
\* the tree (json.dumps and yaml.dump are external).
Document(format, tree) == [tag |-> "document", format |-> format, tree |-> tree]

\* (a variant that falls back to JSON for a format it does not know)
GenerateOfFallback(fields, fmt) ==
    LET example_dict == GenerateExampleDict(fields) IN
    IF Lower(fmt) \in {"yaml", "yml"}
    THEN Returned(Document("yaml", example_dict))
    ELSE Returned(Document("json", example_dict))

\* cls.generate(fmt)
GenerateOf(fields, fmt) ==
    LET example_dict == GenerateExampleDict(fields) IN
    IF Lower(fmt) = "json" THEN Returned(Document("json", example_dict))
    ELSE IF Lower(fmt) \in {"yaml", "yml"}
    THEN Returned(Document("yaml", example_dict))
    ELSE Thrown("ValueError")

AllTypes == {"int", "float", "str", "bool", "list", "dict", "UnknownType"}
GenerateTables == UNION {TablesOfSize(AllTypes, n) : n \in 0..MaxFields}

\* T.generate(fmt), for the Template whose field table is fields.
Generate(fields, fmt) ==
    LET r == GenerateOf(fields, fmt) IN
    /\ pc = "start"
    /\ pc' = "done"
    /\ outcome' = [op |-> "generate", exc |-> r.exc, val |-> r.val,
                   arg |-> Schema(fields), fmt |-> fmt]
    /\ UNCHANGED <<data, config, written>>

NextGenerate ==
    pc = "start" /\ \E fields \in GenerateTables, fmt \in Formats : Generate(fields, fmt)

SpecGenerate == Init /\ [][NextGenerate]_vars

(***************************************************************************)
(* Properties.                                                             *)
(***************************************************************************)
\* The number a numeric value stands for, in tenths; True is 1, False is 0.
NumVal(v) ==
    IF v.tag = "int" THEN 10 * v.n
    ELSE IF v.tag = "bool" THEN (IF v.b THEN 10 ELSE 0)
    ELSE v.tenths

IsNumber(v) == v.tag \in {"int", "bool", "float"}

RECURSIVE PyEq(_, _)
\* Python's a == b on generic trees: mappings by their keys and values,
\* whatever their class and order; sequences element by element; numbers by
\* value.
PyEq(a, b) ==
    IF IsDict(a) /\ IsDict(b)
    THEN /\ KeySet(a) = KeySet(b)
         /\ \A key \in KeySet(a) : PyEq(Lookup(a, key), Lookup(b, key))
    ELSE IF IsList(a) /\ IsList(b)
    THEN /\ Len(a.elems) = Len(b.elems)
         /\ \A i \in 1..Len(a.elems) : PyEq(a.elems[i], b.elems[i])
    ELSE IF IsNumber(a) /\ IsNumber(b) THEN NumVal(a) = NumVal(b)
    ELSE a = b

RECURSIVE AllMappingsAreConfig(_)
\* No raw mapping is reachable from v, through mappings or sequences.
AllMappingsAreConfig(v) ==
    /\ v.tag /= "dict"
    /\ v.tag = "Config" =>
         \A i \in 1..Len(v.items) : AllMappingsAreConfig(v.items[i].v)
    /\ v.tag = "list" =>
         \A i \in 1..Len(v.elems) : AllMappingsAreConfig(v.elems[i])

\* C1: Config(M) of a mapping M has exactly M's keys, the value read at each
\* key equals M's value there, every mapping reachable from the root is a
\* Config, and M is left as it was.
C1_RoundTrip ==
    (outcome.op = "Config" /\ outcome.exc = "none") =>
        /\ config.tag = "Config"
        /\ KeysOf(config) = KeysOf(outcome.arg)
        /\ \A key \in KeySet(outcome.arg) :
               /\ GetItemOf(config, key).exc = "none"
               /\ PyEq(GetItemOf(config, key).val, Lookup(outcome.arg, key))
        /\ AllMappingsAreConfig(config)
        /\ data = outcome.arg

\* A Config built from a mapping that holds a mapping inside a sequence
\* inside a sequence, which has become a Config.
C1_Witness ==
    /\ outcome.op = "Config" /\ outcome.exc = "none"
    /\ HasKey(outcome.arg, "name")
    /\ LET v == Lookup(outcome.arg, "name")
           c == Lookup(config, "name")
       IN  /\ IsList(v) /\ Len(v.elems) = 1
           /\ IsList(v.elems[1]) /\ Len(v.elems[1].elems) = 1
           /\ v.elems[1].elems[1].tag = "dict"
           /\ c.elems[1].elems[1].tag = "Config"

BuildOps == {"Config", "LoadJson", "LoadYaml", "LoadToml", "LoadIni"}

ExpectedValue(key) ==
    LET ws == {i \in 1..Len(written) : written[i].k = key} IN
    IF ws /= {}
    THEN written[CHOOSE i \in ws : \A j \in ws : j <= i].v
    ELSE Lookup(ConvertValue(data), key)

\* C2: for every name present in the store, the read by key and the read by
\* field name both return the value last written to it (or the constructed
\* one).
C2_DualAccess ==
    (/\ pc = "done"
     /\ outcome.op \in {"getitem", "getattr"}
     /\ HasKey(config, outcome.arg.s)) =>
        /\ outcome.exc = "none"
        /\ outcome.val = ExpectedValue(outcome.arg.s)

\* validate outcomes.
Validated == outcome.op = "validate"
Table == outcome.arg.fields

\* The table's i-th field passes on its own.
FieldPasses(i) == ValidateOf(<<Table[i]>>, config).exc = "none"

\* C3: a field of the table that is absent from the store, no earlier field
\* having failed, makes validate raise ConfigValidationError for that field
\* as missing.
C3_MissingField ==
    Validated =>
        \A i \in 1..Len(Table) :
            (/\ ~HasKey(config, Table[i].k)
             /\ \A j \in 1..(i - 1) : FieldPasses(j)) =>
                /\ outcome.exc = "ConfigValidationError"
                /\ outcome.msg = <<MissingMsg(Table[i].k)>>

\* C4: a field of a plain type whose value is present, no earlier field
\* having failed, fails with the mismatch error naming the field, the
\* expected type and the value's type exactly when the value is not an
\* instance of the type (bool being an int), and passes otherwise.
C4_TypeCheck ==
    Validated =>
        \A i \in 1..Len(Table) :
            (/\ ~IsTemplate(Table[i].t)
             /\ HasKey(config, Table[i].k)
             /\ \A j \in 1..(i - 1) : FieldPasses(j)) =>
                LET v == Lookup(config, Table[i].k) IN
                IF IsInstance(v, Table[i].t)
                THEN outcome.exc = "none" \/ outcome.msg[1].field /= Table[i].k
                ELSE /\ outcome.exc = "ConfigValidationError"
                     /\ outcome.msg =
                          <<MismatchMsg(Table[i].k, Table[i].t.name, TypeName(v))>>

RECURSIVE IsNestedPath(_, _)
\* path leads through nested Templates of the table to one of their fields.
IsNestedPath(fields, path) ==
    /\ Len(path) >= 1
    /\ \E i \in 1..Len(fields) :
         /\ fields[i].k = path[1]
         /\ Len(path) > 1 =>
              /\ IsTemplate(fields[i].t)
              /\ IsNestedPath(fields[i].t.fields, Tail(path))

\* C5: the error validate raises is a ConfigValidationError whose message
\* names, from the root down, every enclosing field of the failing field,
\* once each, and then the failing field.
C5_ErrorPath ==
    (Validated /\ outcome.exc /= "none") =>
        LET path == outcome.reads[Len(outcome.reads)]
            n == Len(path)
        IN  /\ outcome.exc = "ConfigValidationError"
            /\ IsNestedPath(Table, path)
            /\ Len(outcome.msg) = n
            /\ \A i \in 1..(n - 1) : outcome.msg[i] = InFieldMsg(path[i])
            /\ outcome.msg[n].what \in
                 {"Missing required field", "Field expected type, got"}
            /\ outcome.msg[n].field = path[n]

\* A field missing two Templates down has been reported.
C5_Witness ==
    /\ Validated
    /\ outcome.exc = "ConfigValidationError"
    /\ outcome.msg = <<InFieldMsg("name"), InFieldMsg("name"), MissingMsg("name")>>
    /\ HasKey(config, "name")
    /\ Lookup(config, "name").tag = "Config"

\* Each field of the table validated on its own.
Alone == [i \in 1..Len(Table) |-> ValidateOf(<<Table[i]>>, config)]

RECURSIVE ReadsUpTo(_, _)
\* The fields examined by validating the first i fields one after another.
ReadsUpTo(alone, i) ==
    IF i = 0 THEN <<>> ELSE ReadsUpTo(alone, i - 1) \o alone[i].reads

Failing == {i \in 1..Len(Table) : ~FieldPasses(i)}

\* C10: validate returns only if every field passes; otherwise it raises the
\* error of the first failing field in table order, having examined the
\* fields before it (nested tables in full) and none after it.
C10_FailFast ==
    Validated =>
        LET alone == Alone
            failing == {i \in 1..Len(alone) : alone[i].exc /= "none"}
        IN  IF failing = {}
            THEN /\ outcome.exc = "none"
                 /\ outcome.reads = ReadsUpTo(alone, Len(alone))
            ELSE LET first == CHOOSE i \in failing : \A j \in failing : i <= j
                 IN  /\ outcome.exc = "ConfigValidationError"
                     /\ outcome.msg = alone[first].msg
                     /\ outcome.reads = ReadsUpTo(alone, first)

\* A nested Template failed in first position, and the field after it, which
\* would fail too, was not examined.
C10_Witness ==
    /\ Validated
    /\ Len(Table) = 2
    /\ IsTemplate(Table[1].t)
    /\ Failing = {1, 2}
    /\ outcome.exc = "ConfigValidationError"
    /\ outcome.msg[1] = InFieldMsg(Table[1].k)
    /\ \A i \in 1..Len(outcome.reads) : outcome.reads[i][1] = Table[1].k

Generated == outcome.op = "generate"

\* The fixed example value of each type tag.
FixedExample(name) ==
    CASE name = "int" -> PyInt(0)
      [] name = "float" -> PyFloat(0)
      [] name = "str" -> PyStr("example")
      [] name = "bool" -> PyBool(FALSE)
      [] name = "list" -> PyList(<<>>)
      [] name = "dict" -> PyDict(<<>>)
      [] OTHER -> PyNone

RECURSIVE IsExampleOf(_, _)
\* tree is a raw mapping with the table's keys in the table's order, each
\* with the example of its type.
IsExampleOf(tree, fields) ==
    /\ tree.tag = "dict"
    /\ Len(tree.items) = Len(fields)
    /\ \A i \in 1..Len(fields) :
         /\ tree.items[i].k = fields[i].k
         /\ IF IsTemplate(fields[i].t)
            THEN IsExampleOf(tree.items[i].v, fields[i].t.fields)
            ELSE tree.items[i].v = FixedExample(fields[i].t.name)

\* C7: the example tree generate serializes has the table's keys in
\* declaration order; a nested Template's key holds its own example tree,
\* any other key the fixed value of its type.
C7_ExampleTree ==
    (Generated /\ outcome.exc = "none") =>
        /\ outcome.val.tag = "document"
        /\ IsExampleOf(outcome.val.tree, Table)

\* An example was generated for a table with a boolean field next to a
\* nested Template that has a field of an unknown type.
C7_Witness ==
    /\ Generated /\ outcome.exc = "none"
    /\ Len(Table) = 2
    /\ Table[1].t = Type("bool")
    /\ Table[2].t = Schema(<<[k |-> "name", t |-> Type("UnknownType")]>>)

\* The format identifiers some adapter answers to, in the specification or
\* in the code.
AdapterFormats == {"json", "yaml", "yml", "toml", "ini"}

\* C8: generate raises ValueError for a format identifier that matches no
\* adapter, whatever the field table, and returns no document.
C8_UnsupportedFormat ==
    (Generated /\ Lower(outcome.fmt) \notin AdapterFormats) =>
        /\ outcome.exc = "ValueError"
        /\ outcome.val = Absent

\* generate("xml") was refused for a table with a nested Template.
C8_Witness ==
    /\ Generated
    /\ outcome.fmt = "xml"
    /\ outcome.exc = "ValueError"
    /\ Len(Table) = 1
    /\ IsTemplate(Table[1].t)
    /\ Len(Table[1].t.fields) = 2

\* C9: generate("toml") and generate("ini") return a serialization of the
\* example tree, like the json and yaml formats.
C9_TomlIniGenerated ==
    (Generated /\ Lower(outcome.fmt) \in {"toml", "ini"}) =>
        /\ outcome.exc = "none"
        /\ outcome.val.tag = "document"
        /\ outcome.val.tree = GenerateExampleDict(Table)

(***************************************************************************)
(* Template.__init_subclass__: the field table of a newly declared schema. *)
(*                                                                         *)
(* A class statement is its base's field table and its body: declarations  *)
(* in source order, each a name with an annotation, a value, or both.      *)
(***************************************************************************)
\* Declarations of one class body.
MaxDecls == 2

NoAnnotation == [kind |-> "none"]
NoValue == Absent
\* A def in the class body, and a def under @classmethod.
PyFunction == [tag |-> "function"]
PyClassMethod == [tag |-> "classmethod"]

\* callable(v): functions and classes are; a classmethod object, like the
\* scalars, is not.
Callable(v) == v.tag \in {"function", "method", "type"}

\* k.startswith("_"), over the names of this model.
StartsWithUnderscore(k) == k \in {"_hidden", "__module__", "__qualname__", "__doc__"}

\* cls.__annotations__: the annotations of the class's own body, in order.
\* The interpreter looks in the class's own namespace, so a base's
\* annotations are not seen (and a body without any gives an empty dict).
Annotations(cls) ==
    LET Annotated(d) == d.ann /= NoAnnotation
        ds == SelectSeq(cls.body, Annotated)
    IN  [i \in 1..Len(ds) |-> [k |-> ds[i].k, t |-> ds[i].ann]]

\* cls.__dict__.items(): what the interpreter adds, around the names the
\* body binds to a value.
ClassDict(cls) ==
    LET Bound(d) == d.val /= NoValue
        ds == SelectSeq(cls.body, Bound)
    IN  <<Entry("__module__", PyStr("__main__")), Entry("__qualname__", PyStr("T"))>>
        \o [i \in 1..Len(ds) |-> Entry(ds[i].k, ds[i].val)]
        \o <<Entry("__doc__", PyNone)>>

\* (a variant whose comprehension does not test callable(v))
InitSubclassKeepCallables(cls) ==
    IF Len(Annotations(cls)) > 0
    THEN Annotations(cls)
    ELSE LET Kept(e) == ~StartsWithUnderscore(e.k)
             es == SelectSeq(ClassDict(cls), Kept)
         IN  [i \in 1..Len(es) |-> [k |-> es[i].k, t |-> Type(TypeName(es[i].v))]]

\* __init_subclass__: cls._fields.
InitSubclass(cls) ==
    IF Len(Annotations(cls)) > 0
    THEN Annotations(cls)
    ELSE LET Kept(e) == ~StartsWithUnderscore(e.k) /\ ~Callable(e.v)
             es == SelectSeq(ClassDict(cls), Kept)
         IN  [i \in 1..Len(es) |-> [k |-> es[i].k, t |-> Type(TypeName(es[i].v))]]

\* Class bodies of at most MaxDecls declarations, under Template itself or
\* under a schema that has a field of its own.
BodyNames == {"name", "age", "_hidden"}
BodyAnnotations == {NoAnnotation, Type("str"), Type("int")}
BodyValues == {NoValue, PyStr("default"), PyInt(0), PyBool(TRUE), PyFunction, PyClassMethod}
Decls ==
    {[k |-> nm, ann |-> a, val |-> v] :
        nm \in BodyNames, a \in BodyAnnotations, v \in BodyValues}
    \ {[k |-> nm, ann |-> NoAnnotation, val |-> NoValue] : nm \in BodyNames}
Bodies ==
    UNION {{b \in [1..n -> Decls] : \A i, j \in 1..n : b[i].k = b[j].k => i = j}
           : n \in 0..MaxDecls}
BaseTables == {<<>>, <<[k |-> "name", t |-> Type("str")]>>}
Classes == {[tag |-> "class", base |-> bt, body |-> b] : bt \in BaseTables, b \in Bodies}

\* class T(Base): <body>
Define(cls) ==
    /\ pc = "start"
    /\ pc' = "done"
    /\ outcome' = [op |-> "define", exc |-> "none",
                   val |-> Schema(InitSubclass(cls)), arg |-> cls]
    /\ UNCHANGED <<data, config, written>>

NextDefine == pc = "start" /\ \E cls \in Classes : Define(cls)

SpecDefine == Init /\ [][NextDefine]_vars

Defined == outcome.op = "define"

RECURSIVE DeclaredAnnotations(_), PublicData(_)
\* The body's annotations, one field each, in order.
DeclaredAnnotations(body) ==
    IF body = <<>> THEN <<>>
    ELSE (IF Head(body).ann = NoAnnotation THEN <<>>
          ELSE <<[k |-> Head(body).k, t |-> Head(body).ann]>>)
         \o DeclaredAnnotations(Tail(body))

\* The body's own attributes that are neither underscore-named nor
\* callable, each with the type of its value, in order.
PublicData(body) ==
    IF body = <<>> THEN <<>>
    ELSE LET d == Head(body) IN
         (IF \/ d.val = NoValue
             \/ d.k = "_hidden"
             \/ d.val.tag \in {"function", "type"}
          THEN <<>>
          ELSE <<[k |-> d.k, t |-> [kind |-> "type", name |-> d.val.tag]]>>)
         \o PublicData(Tail(body))

\* The class that declares each attribute of the body as name: type of its
\* value.
AnnotatedTwin(cls) ==
    [cls EXCEPT !.body = [i \in 1..Len(cls.body) |->
        [k |-> cls.body[i].k, ann |-> Type(TypeName(cls.body[i].val)), val |-> NoValue]]]

\* C11: the field table is the body's annotations if it has any; otherwise
\* its own attributes that are not underscore-named and not callable, each
\* with the runtime type of its value.  So a schema of plain data attributes
\* has the table of the schema that annotates them with their types, and
\* validate and generate, which read nothing but the table, treat the two
\* alike.
C11_FieldTable ==
    Defined =>
        LET body == outcome.arg.body
            annotated == \E i \in 1..Len(body) : body[i].ann /= NoAnnotation
        IN  /\ outcome.val.fields =
                 IF annotated THEN DeclaredAnnotations(body) ELSE PublicData(body)
            /\ (/\ ~annotated
                /\ \A i \in 1..Len(body) :
                     ~StartsWithUnderscore(body[i].k) /\ ~Callable(body[i].val)) =>
                   outcome.val.fields = InitSubclass(AnnotatedTwin(outcome.arg))

\* The schema declared with name = "default", age = 0 has been defined, with
\* the table of name: str, age: int.
C11_Witness ==
    /\ Defined
    /\ outcome.arg.body =
         <<[k |-> "name", ann |-> NoAnnotation, val |-> PyStr("default")],
           [k |-> "age", ann |-> NoAnnotation, val |-> PyInt(0)]>>
    /\ outcome.val.fields =
         <<[k |-> "name", t |-> Type("str")], [k |-> "age", t |-> Type("int")]>>

====
